---- MODULE Spec2Model ----
(***************************************************************************)
(* The Express/MongoDB backend of the chatbot (mern-chatbot-backend/       *)
(* server.js) as a state machine.  Every HTTP request is a record of the   *)
(* sequence reqs; a handler runs from one await to the next in one step,   *)
(* so handlers of different requests interleave exactly at the awaits.     *)
(* The two MongoDB collections are the sequences users and histories, the  *)
(* Python service is the environment.                                      *)
(*                                                                         *)
(* The React client (mern-chatbot-frontend/src/pages/ Chat.jsx, Login.jsx, *)
(* Register.jsx with context/AuthContext.jsx) is a second state machine    *)
(* over its own variables: every invocation of an async handler is a       *)
(* record of the sequence tasks and runs from one await to the next in one *)
(* step; the backend is its environment.                                   *)
(***************************************************************************)
EXTENDS Integers, Sequences, FiniteSets, TLC

VARIABLES
    users,      \* the User collection, in insertion order
    histories,  \* the ChatHistory collection, in insertion order
    reqs,       \* every request received so far, in order of arrival
    nextId,     \* the next fresh ObjectId of a User document
    up,         \* the Node process is running
    token,      \* AuthContext: the token state
    storage,    \* localStorage: the 'token' entry
    page,       \* the route the browser shows
    messages,   \* Chat: the messages state, an array of references
    objs,       \* the message objects the arrays refer to
    input,      \* Chat: the input state
    uploadStatus, \* Chat: the uploadStatus state
    error,      \* Login, Register: the error state
    tasks       \* every invocation of an async handler of a page

serverVars == <<users, histories, reqs, nextId, up>>

clientVars ==
    <<token, storage, page, messages, objs, input, uploadStatus, error, tasks>>

vars == <<serverVars, clientVars>>

----------------------------------------------------------------------------
(* Bounds of the model *)

\* Requests the clients issue in one behaviour.
MaxReqs == 2

\* Chunks the chat page reads of one streamed reply.
MaxChunks == 2

----------------------------------------------------------------------------
(* Inputs *)

Emails == {"a@x", "b@x"}
Passwords == {"pw1", "pw2"}
Salts == {"s1", "s2"}
Questions == {<<113>>}
\* The number of files in the "files" field of an upload.
FileCounts == {0, 1}
\* The bodies of the Python service's /upload acknowledgment.
Acks == {<<>>, <<"a.pdf">>}

Min(S) == CHOOSE x \in S : \A y \in S : x <= y

----------------------------------------------------------------------------
(* bcrypt: a hash carries its salt, compare re-hashes with the stored salt *)

Hash(pw, salt) == [salt |-> salt, digest |-> <<salt, pw>>]

CompareAlways(pw, hash) == TRUE

Compare(pw, hash) == Hash(pw, hash.salt) = hash

----------------------------------------------------------------------------
(* jsonwebtoken: the payload { user: { id } }, signed, expiring after 7    *)
(* days.  A presented token carries its age in days.                       *)

TokenTTL == 7

NoToken == [id |-> 0, sig |-> "none", age |-> 0]

Sign(id) == [id |-> id, sig |-> "ok", age |-> 0]

\* middleware/auth.js: the signature and the expiry are verified.
Verify(tok) == tok.sig = "ok" /\ tok.age < TokenTTL

\* The routes registered with the auth middleware.
GuardedNoUpload(kind) == kind \in {"history", "chat"}

Guarded(kind) == kind \in {"history", "chat", "upload"}

\* auth answers 401 and the chain stops; otherwise req.user is the payload's.
Rejected(kind, tok) == Guarded(kind) /\ ~Verify(tok)

----------------------------------------------------------------------------
(* UTF-8: chunk.toString() decodes one Buffer on its own, res.write(string) *)
(* encodes the string again.  Bytes and code points are numbers; the       *)
(* bodies use 1- and 2-byte characters.                                    *)

Replacement == 65533

IsLead2(b) == b >= 194 /\ b <= 223
IsLead3(b) == b >= 224 /\ b <= 239
IsLead4(b) == b >= 240 /\ b <= 244
IsCont(b) == b >= 128 /\ b <= 191

\* The continuation bytes a lead byte asks for.
Need(b) == IF IsLead2(b) THEN 1 ELSE IF IsLead3(b) THEN 2 ELSE IF IsLead4(b) THEN 3 ELSE 0

\* The second byte continues lead byte b: E0, ED, F0 and F4 narrow the range
\* (no overlong forms, no surrogates, nothing above U+10FFFF).
IsSecond(b, c) ==
    /\ c >= (IF b = 224 THEN 160 ELSE IF b = 240 THEN 144 ELSE 128)
    /\ c <= (IF b = 237 THEN 159 ELSE IF b = 244 THEN 143 ELSE 191)

\* How many of the bytes after the lead byte bs[1] continue it, at most Need.
RECURSIVE Continued(_, _)
Continued(bs, k) ==
    IF k < Need(bs[1]) /\ Len(bs) >= k + 2
       /\ (IF k = 0 THEN IsSecond(bs[1], bs[2]) ELSE IsCont(bs[k + 2]))
    THEN Continued(bs, k + 1)
    ELSE k

\* The code point of the well-formed sequence bs[1..Need(bs[1])+1].
CodePoint(bs) ==
    IF IsLead2(bs[1]) THEN (bs[1] - 192) * 64 + (bs[2] - 128)
    ELSE IF IsLead3(bs[1])
         THEN (bs[1] - 224) * 4096 + (bs[2] - 128) * 64 + (bs[3] - 128)
    ELSE (bs[1] - 240) * 262144 + (bs[2] - 128) * 4096
         + (bs[3] - 128) * 64 + (bs[4] - 128)

\* buffer.toString(): a byte that starts no character, and a character cut
\* short together with the bytes of it that are there, become one U+FFFD.
RECURSIVE Utf8Decode(_)
Utf8Decode(bs) ==
    IF bs = <<>> THEN <<>>
    ELSE IF bs[1] < 128 THEN <<bs[1]>> \o Utf8Decode(Tail(bs))
    ELSE IF Need(bs[1]) = 0 THEN <<Replacement>> \o Utf8Decode(Tail(bs))
    ELSE LET k == Continued(bs, 0)
         IN  IF k = Need(bs[1])
             THEN <<CodePoint(bs)>> \o Utf8Decode(SubSeq(bs, k + 2, Len(bs)))
             ELSE <<Replacement>> \o Utf8Decode(SubSeq(bs, k + 2, Len(bs)))

IsSurrogate(cp) == cp >= 55296 /\ cp <= 57343

\* Buffer.from(string, 'utf8') of one character; a lone surrogate is written
\* as U+FFFD.
EncodeCp(cp) ==
    IF cp < 128 THEN <<cp>>
    ELSE IF cp < 2048 THEN <<192 + (cp \div 64), 128 + (cp % 64)>>
    ELSE IF IsSurrogate(cp) THEN <<239, 191, 189>>
    ELSE IF cp < 65536
         THEN <<224 + (cp \div 4096), 128 + ((cp \div 64) % 64), 128 + (cp % 64)>>
    ELSE <<240 + (cp \div 262144), 128 + ((cp \div 4096) % 64),
           128 + ((cp \div 64) % 64), 128 + (cp % 64)>>

RECURSIVE Utf8Encode(_)
Utf8Encode(s) ==
    IF s = <<>> THEN <<>> ELSE EncodeCp(s[1]) \o Utf8Encode(Tail(s))

RECURSIVE Concat(_)
Concat(ss) == IF ss = <<>> THEN <<>> ELSE ss[1] \o Concat(Tail(ss))

\* What the Python service may stream: well-formed UTF-8 text ("", "a", "\u00e9").
Bodies == {<<>>, <<97>>, <<195, 169>>}

----------------------------------------------------------------------------
(* Documents *)

NoUser == [id |-> 0, email |-> "", password |-> Hash("", "")]

\* User.findOne({ email }): the first document with that email, or none.
FindUser(us, email) ==
    LET S == {i \in 1..Len(us) : us[i].email = email}
    IN  IF S = {} THEN NoUser ELSE us[Min(S)]

\* models/User.js: email is unique, save() of a second one is rejected.
UniqueEmail(us, email) == \A i \in 1..Len(us) : us[i].email # email

\* ChatHistory.findOne({}): the first record of the collection, 0 if none.
HistIndexAnyUser(hs, uid) == IF hs = <<>> THEN 0 ELSE 1

\* ChatHistory.findOne({ userId }): the index of the first document, or 0.
HistIndex(hs, uid) ==
    LET S == {i \in 1..Len(hs) : hs[i].userId = uid}
    IN  IF S = {} THEN 0 ELSE Min(S)

HistMessages(hs, uid) ==
    IF HistIndex(hs, uid) = 0 THEN <<>> ELSE hs[HistIndex(hs, uid)].messages

\* chatHistorySchema: userId is unique, save() of a second one is rejected.
NoUniqueIndex(hs, uid) == TRUE

UniqueUserId(hs, uid) == HistIndex(hs, uid) = 0

\* findOneAndUpdate({ userId }, { $push: { messages: m } }, { upsert }).
PushMessagePrepend(hs, uid, m, upsert) ==
    LET i == HistIndex(hs, uid)
    IN  IF i = 0
        THEN IF upsert THEN Append(hs, [userId |-> uid, messages |-> <<m>>]) ELSE hs
        ELSE [hs EXCEPT ![i].messages = <<m>> \o @]

PushMessageSet(hs, uid, m, upsert) ==
    LET i == HistIndex(hs, uid)
    IN  IF i = 0
        THEN IF upsert THEN Append(hs, [userId |-> uid, messages |-> <<m>>]) ELSE hs
        ELSE [hs EXCEPT ![i].messages = <<m>>]

PushMessage(hs, uid, m, upsert) ==
    LET i == HistIndex(hs, uid)
    IN  IF i = 0
        THEN IF upsert THEN Append(hs, [userId |-> uid, messages |-> <<m>>]) ELSE hs
        ELSE [hs EXCEPT ![i].messages = Append(@, m)]

\* A message of the exchange of request x (x stands for the subdocument's _id
\* and timestamp, which tell two messages of equal content apart).
Message(role, content, x) == [role |-> role, content |-> content, x |-> x]

----------------------------------------------------------------------------
(* Requests *)

NewReq(kind) ==
    [kind |-> kind, pc |-> "new",
     \* the request
     email |-> "", pw |-> "", tok |-> NoToken, question |-> <<>>, nfiles |-> 0,
     \* the handler's locals
     userId |-> 0, user |-> NoUser, salt |-> "", miss |-> FALSE,
     body |-> <<>>, rcvd |-> <<>>, fullAssistantResponse |-> <<>>, ups |-> "none",
     \* the response
     status |-> 0, written |-> <<>>, token |-> NoToken, msgs |-> <<>>,
     msg |-> "", ack |-> <<>>,
     \* bookkeeping: calls to the Python service, ChatHistory operations,
     \* another chat of the same user was in flight, the email was registered
     \* when the request arrived
     calls |-> 0, dbops |-> 0, conc |-> FALSE, regd |-> FALSE]

Ids == 1..Len(reqs)

InFlight(i) == reqs[i].pc \notin {"done", "orphan"}

\* res.status(s).json({ msg }) or .json({ error }) or .send(text)
Fail(rq, status, msg) == [rq EXCEPT !.pc = "done", !.status = status, !.msg = msg]

\* The users who registered before the server was started: no request of
\* this run created them.
Seeded ==
    {n \in 1..Len(users) :
        \A i \in Ids : ~(reqs[i].kind = "register" /\ reqs[i].user.id = users[n].id)}

\* The requests answered with res.json({ token }): the callbacks of jwt.sign
\* in the register and the login handler.
Answered ==
    {i \in Ids : /\ reqs[i].kind \in {"register", "login"}
                 /\ reqs[i].pc = "done" /\ reqs[i].status = 200}

\* The tokens the server has handed out: the ones of the users who registered
\* before it was started and the ones it has answered a registration or a
\* login with; a token stays valid without any server-side session.
IssuedTokens ==
    {Sign(users[n].id) : n \in Seeded} \cup {reqs[i].token : i \in Answered}

\* What a client can present: nothing, a token it was given (fresh or 7 days
\* old), or one with the signature broken.
ClientTokens ==
    {NoToken}
    \cup IssuedTokens
    \cup {[t EXCEPT !.age = TokenTTL] : t \in IssuedTokens}
    \cup {[t EXCEPT !.sig = "bad"] : t \in IssuedTokens}

\* The user who registered as a@x before the server was started.
Alice == [id |-> 1, email |-> "a@x", password |-> Hash("pw1", "s1")]

\* One invocation of fetchHistory, handleSend, handleFileUpload or a form's
\* handleSubmit: its position, whether the component it belongs to is
\* mounted, the locals of its closure, and what the request was answered.
\* user is the reference of the userMessage the invocation created; overlap
\* and loaded record what the page was doing when the handler was invoked,
\* after the token state, the localStorage entry and the page at its end.
NewTask(kind) ==
    [kind |-> kind, pc |-> "fetch", live |-> TRUE, status |-> 0, error |-> <<>>,
     currentInput |-> <<>>, newMessages |-> <<>>, user |-> 0,
     assistantResponse |-> <<>>, reads |-> 0,
     overlap |-> FALSE, loaded |-> FALSE,
     after |-> [token |-> NoToken, storage |-> NoToken, page |-> ""]]

\* The chat page has just been mounted by a signed-in user: AuthContext
\* read the token from localStorage, every state has its useState value and
\* the effect has called fetchHistory, which awaits the answer.
ClientInit ==
    /\ token = Sign(Alice.id)
    /\ storage = token
    /\ page = "chat"
    /\ messages = <<>>
    /\ objs = <<>>
    /\ input = <<>>
    /\ uploadStatus = <<>>
    /\ error = <<>>
    /\ tasks = <<NewTask("history")>>

\* The server starts on a database in which a@x has registered and nobody has
\* chatted yet; b@x is not registered.
Init ==
    /\ users = <<Alice>>
    /\ histories = <<>>
    /\ reqs = <<>>
    /\ nextId = Alice.id + 1
    /\ up = TRUE
    /\ ClientInit

Arrive(rq) ==
    /\ up
    /\ Len(reqs) < MaxReqs
    /\ reqs' = Append(reqs, rq)
    /\ UNCHANGED <<clientVars, users, histories, nextId, up>>

----------------------------------------------------------------------------
(* POST /api/register *)

RegisterArrive(e, p) ==
    Arrive([NewReq("register") EXCEPT !.email = e, !.pw = p, !.pc = "findOne",
                                      !.regd = ~UniqueEmail(users, e)])

\* let user = await User.findOne({ email }); 400 if found, else new User(...)
RegisterFind(i) ==
    /\ up /\ reqs[i].kind = "register" /\ reqs[i].pc = "findOne"
    /\ LET u == FindUser(users, reqs[i].email)
       IN  IF u # NoUser
           THEN /\ reqs' = [reqs EXCEPT ![i] = Fail(@, 400, "User already exists")]
                /\ UNCHANGED nextId
           ELSE /\ reqs' = [reqs EXCEPT ![i].pc = "genSalt",
                                        ![i].user = [id |-> nextId, email |-> reqs[i].email,
                                                     password |-> Hash("", "")]]
                /\ nextId' = nextId + 1
    /\ UNCHANGED <<clientVars, users, histories, up>>

\* const salt = await bcrypt.genSalt(10)
RegisterGenSalt(i, salt) ==
    /\ up /\ reqs[i].kind = "register" /\ reqs[i].pc = "genSalt"
    /\ reqs' = [reqs EXCEPT ![i].pc = "hash", ![i].salt = salt]
    /\ UNCHANGED <<clientVars, users, histories, nextId, up>>

\* user.password = await bcrypt.hash(password, salt)
RegisterHash(i) ==
    /\ up /\ reqs[i].kind = "register" /\ reqs[i].pc = "hash"
    /\ reqs' = [reqs EXCEPT ![i].pc = "save",
                            ![i].user.password = Hash(reqs[i].pw, reqs[i].salt)]
    /\ UNCHANGED <<clientVars, users, histories, nextId, up>>

\* await user.save(), then jwt.sign(payload, secret, options, callback) is
\* called and the handler returns; a rejected save is the catch's 500.
RegisterSave(i) ==
    /\ up /\ reqs[i].kind = "register" /\ reqs[i].pc = "save"
    /\ IF UniqueEmail(users, reqs[i].email)
       THEN /\ users' = Append(users, reqs[i].user)
            /\ reqs' = [reqs EXCEPT ![i].pc = "sign"]
       ELSE /\ reqs' = [reqs EXCEPT ![i] = Fail(@, 500, "Server error")]
            /\ UNCHANGED users
    /\ UNCHANGED <<clientVars, histories, nextId, up>>

\* The callback of jwt.sign: res.json({ token }).  Its err is null, the
\* secret being the one the tokens of the clients verify against.
SignCallback(rq) ==
    [rq EXCEPT !.pc = "done", !.status = 200, !.token = Sign(rq.user.id)]

RegisterSign(i) ==
    /\ up /\ reqs[i].kind = "register" /\ reqs[i].pc = "sign"
    /\ reqs' = [reqs EXCEPT ![i] = SignCallback(@)]
    /\ UNCHANGED <<clientVars, users, histories, nextId, up>>

----------------------------------------------------------------------------
(* POST /api/login *)

LoginArrive(e, p) ==
    Arrive([NewReq("login") EXCEPT !.email = e, !.pw = p, !.pc = "findOne",
                                   !.regd = ~UniqueEmail(users, e)])

\* let user = await User.findOne({ email }); 400 if none
LoginFind(i) ==
    /\ up /\ reqs[i].kind = "login" /\ reqs[i].pc = "findOne"
    /\ LET u == FindUser(users, reqs[i].email)
       IN  reqs' = [reqs EXCEPT ![i] =
                        IF u = NoUser THEN Fail(@, 400, "Invalid credentials")
                        ELSE [@ EXCEPT !.pc = "compare", !.user = u]]
    /\ UNCHANGED <<clientVars, users, histories, nextId, up>>

\* isMatch = await bcrypt.compare(password, user.password); 400, or jwt.sign
\* is called and the handler returns.
LoginCompare(i) ==
    /\ up /\ reqs[i].kind = "login" /\ reqs[i].pc = "compare"
    /\ reqs' = [reqs EXCEPT ![i] =
                    IF ~Compare(reqs[i].pw, reqs[i].user.password)
                    THEN Fail(@, 400, "Invalid credentials")
                    ELSE [@ EXCEPT !.pc = "sign"]]
    /\ UNCHANGED <<clientVars, users, histories, nextId, up>>

LoginSign(i) ==
    /\ up /\ reqs[i].kind = "login" /\ reqs[i].pc = "sign"
    /\ reqs' = [reqs EXCEPT ![i] = SignCallback(@)]
    /\ UNCHANGED <<clientVars, users, histories, nextId, up>>

----------------------------------------------------------------------------
(* GET /api/history *)

\* auth, then the handler up to its first await.
HistoryArrive(t) ==
    Arrive(IF Rejected("history", t)
           THEN Fail([NewReq("history") EXCEPT !.tok = t], 401, "Unauthorized")
           ELSE [NewReq("history") EXCEPT !.tok = t, !.userId = t.id, !.pc = "findOne"])

\* let history = await ChatHistory.findOne({ userId }); res.json(history.messages)
\* if found, else new ChatHistory({ userId, messages: [] }) is to be saved.
HistoryFind(i) ==
    /\ up /\ reqs[i].kind = "history" /\ reqs[i].pc = "findOne"
    /\ reqs' = [reqs EXCEPT ![i] =
                    IF HistIndex(histories, reqs[i].userId) = 0
                    THEN [@ EXCEPT !.pc = "save", !.miss = TRUE, !.dbops = @ + 1]
                    ELSE [@ EXCEPT !.pc = "done", !.status = 200, !.dbops = @ + 1,
                                   !.msgs = HistMessages(histories, reqs[i].userId)]]
    /\ UNCHANGED <<clientVars, users, histories, nextId, up>>

\* await history.save(); res.json(history.messages), or the catch's 500.
HistorySave(i) ==
    /\ up /\ reqs[i].kind = "history" /\ reqs[i].pc = "save"
    /\ IF UniqueUserId(histories, reqs[i].userId)
       THEN /\ histories' = Append(histories, [userId |-> reqs[i].userId, messages |-> <<>>])
            /\ reqs' = [reqs EXCEPT ![i].pc = "done", ![i].status = 200,
                                    ![i].msgs = <<>>, ![i].dbops = @ + 1]
       ELSE /\ reqs' = [reqs EXCEPT ![i] =
                            Fail([@ EXCEPT !.dbops = @ + 1], 500, "Error fetching history")]
            /\ UNCHANGED histories
    /\ UNCHANGED <<clientVars, users, nextId, up>>

----------------------------------------------------------------------------
(* POST /api/chat *)

\* The chats of user uid whose exchange is under way.
ChatsInFlight(uid) ==
    {j \in Ids : reqs[j].kind = "chat" /\ reqs[j].userId = uid /\ InFlight(j)}

ChatArrive(t, q) ==
    /\ up
    /\ Len(reqs) < MaxReqs
    /\ IF Rejected("chat", t)
       THEN reqs' = Append(reqs, Fail([NewReq("chat") EXCEPT !.tok = t, !.question = q],
                                      401, "Unauthorized"))
       ELSE reqs' = Append([j \in Ids |->
                               IF j \in ChatsInFlight(t.id)
                               THEN [reqs[j] EXCEPT !.conc = TRUE] ELSE reqs[j]],
                           [NewReq("chat") EXCEPT !.tok = t, !.question = q, !.userId = t.id,
                                                  !.pc = "pushUser",
                                                  !.conc = ChatsInFlight(t.id) # {}])
    /\ UNCHANGED <<clientVars, users, histories, nextId, up>>

\* 1. await findOneAndUpdate(..., $push the user message, { upsert: true });
\* 2. axios.post(`${PYTHON_API_URL}/query`, ..., { responseType: 'stream' }) is sent.
ChatPushUser(i) ==
    /\ up /\ reqs[i].kind = "chat" /\ reqs[i].pc = "pushUser"
    /\ histories' = PushMessage(histories, reqs[i].userId,
                                Message("user", reqs[i].question, i), TRUE)
    /\ reqs' = [reqs EXCEPT ![i].pc = "query", ![i].dbops = @ + 1, ![i].calls = @ + 1]
    /\ UNCHANGED <<clientVars, users, nextId, up>>

\* The catch: console.error, res.status(500).json({ error }).
OnQueryFailureSwallow(rq) == [rq EXCEPT !.pc = "orphan", !.ups = "refused"]

OnQueryFailure(rq) ==
    Fail([rq EXCEPT !.ups = "refused"], 500, "Error processing chat")

\* axios.post rejects: the service is unreachable or answers a non-2xx status.
ChatQueryFail(i) ==
    /\ up /\ reqs[i].kind = "chat" /\ reqs[i].pc = "query"
    /\ reqs' = [reqs EXCEPT ![i] = OnQueryFailure(@)]
    /\ UNCHANGED <<clientVars, users, histories, nextId, up>>

\* axios.post resolves with the stream: fullAssistantResponse = "", the 'data'
\* and 'end' listeners are attached.
ChatQueryOk(i, b) ==
    /\ up /\ reqs[i].kind = "chat" /\ reqs[i].pc = "query"
    /\ reqs' = [reqs EXCEPT ![i].pc = "stream", ![i].ups = "streaming", ![i].body = b]
    /\ UNCHANGED <<clientVars, users, histories, nextId, up>>

\* 'data': the next n bytes arrive as one Buffer;
\* chunkString = chunk.toString(); fullAssistantResponse += chunkString;
\* res.write(chunkString), which also sends the 200 header.
ChatData(i, n) ==
    /\ up /\ reqs[i].kind = "chat" /\ reqs[i].pc = "stream"
    /\ LET chunk == SubSeq(reqs[i].body, 1, n)
           chunkString == Utf8Decode(chunk)
       IN  reqs' = [reqs EXCEPT ![i].body = SubSeq(@, n + 1, Len(@)),
                                ![i].rcvd = Append(@, chunk),
                                ![i].fullAssistantResponse = @ \o chunkString,
                                ![i].written = Append(@, Utf8Encode(chunkString)),
                                ![i].status = 200]
    /\ UNCHANGED <<clientVars, users, histories, nextId, up>>

\* 'end': 4. await findOneAndUpdate(..., $push the assistant message).
ChatPushAssistant(i) ==
    /\ up /\ reqs[i].kind = "chat" /\ reqs[i].pc = "stream" /\ reqs[i].body = <<>>
    /\ histories' = PushMessage(histories, reqs[i].userId,
                                Message("assistant", reqs[i].fullAssistantResponse, i), FALSE)
    /\ reqs' = [reqs EXCEPT ![i].pc = "end", ![i].ups = "ended", ![i].dbops = @ + 1]
    /\ UNCHANGED <<clientVars, users, nextId, up>>

\* res.end()
ChatEnd(i) ==
    /\ up /\ reqs[i].kind = "chat" /\ reqs[i].pc = "end"
    /\ reqs' = [reqs EXCEPT ![i].pc = "done", ![i].status = 200]
    /\ UNCHANGED <<clientVars, users, histories, nextId, up>>

\* The stream breaks: 'error' has no listener, 'end' never fires and nothing
\* ends the response; an 'error' event without a listener is thrown and, not
\* being caught, stops the process.
ChatStreamError(i, alive) ==
    /\ up /\ reqs[i].kind = "chat" /\ reqs[i].pc = "stream"
    /\ reqs' = [reqs EXCEPT ![i].pc = "orphan", ![i].ups = "broken"]
    /\ up' = alive
    /\ UNCHANGED <<clientVars, users, histories, nextId>>

----------------------------------------------------------------------------
(* POST /api/upload *)

\* auth, then upload.array("files") reads the multipart body.
UploadArrive(t, n) ==
    Arrive(IF Rejected("upload", t)
           THEN Fail([NewReq("upload") EXCEPT !.tok = t, !.nfiles = n], 401, "Unauthorized")
           ELSE [NewReq("upload") EXCEPT !.tok = t, !.nfiles = n, !.pc = "multer",
                                         !.userId = IF Verify(t) THEN t.id ELSE 0])

\* !req.files || req.files.length === 0
NoFilesNever(n) == FALSE

NoFiles(n) == n = 0

\* 400 without files, else the form is rebuilt and axios.post(.../upload) is sent.
UploadHandler(i) ==
    /\ up /\ reqs[i].kind = "upload" /\ reqs[i].pc = "multer"
    /\ reqs' = [reqs EXCEPT ![i] =
                    IF NoFiles(reqs[i].nfiles) THEN Fail(@, 400, "No files uploaded.")
                    ELSE [@ EXCEPT !.pc = "forward", !.calls = @ + 1]]
    /\ UNCHANGED <<clientVars, users, histories, nextId, up>>

\* The promise of axios.post resolves with the answer of the Python service,
\* whose data is a, and the handler goes on in the same turn of the event
\* loop: res.json(pythonResponse.data).
UploadReply(i, a) ==
    /\ up /\ reqs[i].kind = "upload" /\ reqs[i].pc = "forward"
    /\ LET pythonResponse == [data |-> a]
       IN  reqs' = [reqs EXCEPT ![i].pc = "done", ![i].status = 200,
                               ![i].rcvd = <<a>>, ![i].ups = "ended",
                               ![i].ack = pythonResponse.data]
    /\ UNCHANGED <<clientVars, users, histories, nextId, up>>

\* The catch: res.status(500).json({ error }).
UploadFail(i) ==
    /\ up /\ reqs[i].kind = "upload" /\ reqs[i].pc = "forward"
    /\ reqs' = [reqs EXCEPT ![i] =
                    Fail([@ EXCEPT !.ups = "refused"], 500,
                         "Error forwarding file to Python service")]
    /\ UNCHANGED <<clientVars, users, histories, nextId, up>>

----------------------------------------------------------------------------

Next ==
    \/ \E e \in Emails, p \in Passwords : RegisterArrive(e, p)
    \/ \E i \in Ids : RegisterFind(i)
    \/ \E i \in Ids, s \in Salts : RegisterGenSalt(i, s)
    \/ \E i \in Ids : RegisterHash(i)
    \/ \E i \in Ids : RegisterSave(i)
    \/ \E i \in Ids : RegisterSign(i)
    \/ \E e \in Emails, p \in Passwords : LoginArrive(e, p)
    \/ \E i \in Ids : LoginFind(i)
    \/ \E i \in Ids : LoginCompare(i)
    \/ \E i \in Ids : LoginSign(i)
    \/ \E t \in ClientTokens : HistoryArrive(t)
    \/ \E i \in Ids : HistoryFind(i)
    \/ \E i \in Ids : HistorySave(i)
    \/ \E t \in ClientTokens, q \in Questions : ChatArrive(t, q)
    \/ \E i \in Ids : ChatPushUser(i)
    \/ \E i \in Ids : ChatQueryFail(i)
    \/ \E i \in Ids, b \in Bodies : ChatQueryOk(i, b)
    \/ \E i \in Ids : \E n \in 1..Len(reqs[i].body) : ChatData(i, n)
    \/ \E i \in Ids : ChatPushAssistant(i)
    \/ \E i \in Ids : ChatEnd(i)
    \/ \E i \in Ids, alive \in BOOLEAN : ChatStreamError(i, alive)
    \/ \E t \in ClientTokens, n \in FileCounts : UploadArrive(t, n)
    \/ \E i \in Ids : UploadHandler(i)
    \/ \E i \in Ids, a \in Acks : UploadReply(i, a)
    \/ \E i \in Ids : UploadFail(i)

Spec == Init /\ [][Next]_vars

----------------------------------------------------------------------------
(* The History Store with two registered users *)

\* The user who registered as b@x before the server was started.
Bob == [id |-> 2, email |-> "b@x", password |-> Hash("pw2", "s2")]

InitUsers ==
    /\ users = <<Alice, Bob>>
    /\ histories = <<>>
    /\ reqs = <<>>
    /\ nextId = Bob.id + 1
    /\ up = TRUE
    /\ ClientInit

\* The history and chat requests of the two users, in every interleaving.
NextUsers ==
    \/ \E t \in ClientTokens : HistoryArrive(t)
    \/ \E i \in Ids : HistoryFind(i)
    \/ \E i \in Ids : HistorySave(i)
    \/ \E t \in ClientTokens, q \in Questions : ChatArrive(t, q)
    \/ \E i \in Ids : ChatPushUser(i)
    \/ \E i \in Ids : ChatQueryFail(i)
    \/ \E i \in Ids, b \in Bodies : ChatQueryOk(i, b)
    \/ \E i \in Ids : \E n \in 1..Len(reqs[i].body) : ChatData(i, n)
    \/ \E i \in Ids : ChatPushAssistant(i)
    \/ \E i \in Ids : ChatEnd(i)
    \/ \E i \in Ids, alive \in BOOLEAN : ChatStreamError(i, alive)

SpecUsers == InitUsers /\ [][NextUsers]_vars

----------------------------------------------------------------------------
(* The client: strings are sequences of code points *)

\* "401"
Code401 == <<52, 48, 49>>

\* String.prototype.includes
Includes(s, sub) ==
    \E k \in 0..(Len(s) - Len(sub)) : SubSeq(s, k + 1, k + Len(sub)) = sub

\* WhiteSpace and LineTerminator of ECMAScript, which trim removes: TAB, LF,
\* VT, FF, CR, SP, NBSP, U+1680, U+2000..U+200A, U+2028, U+2029, U+202F,
\* U+205F, U+3000 and U+FEFF.
IsSpace(c) ==
    \/ c \in {9, 10, 11, 12, 13, 32, 160, 5760, 8232, 8233, 8239, 8287,
              12288, 65279}
    \/ c >= 8192 /\ c <= 8202

\* String.prototype.trim
RECURSIVE TrimStart(_)
TrimStart(s) ==
    IF s # <<>> /\ IsSpace(s[1]) THEN TrimStart(Tail(s)) ELSE s

RECURSIVE TrimEnd(_)
TrimEnd(s) ==
    IF s # <<>> /\ IsSpace(s[Len(s)])
    THEN TrimEnd(SubSeq(s, 1, Len(s) - 1))
    ELSE s

Trim(s) == TrimEnd(TrimStart(s))

\* Array.prototype.join
RECURSIVE Join(_, _)
Join(ss, sep) ==
    IF ss = <<>> THEN <<>>
    ELSE IF Len(ss) = 1 THEN ss[1]
    ELSE ss[1] \o sep \o Join(Tail(ss), sep)

\* "Failed to fetch history"
FailedToFetchHistory ==
    <<70, 97, 105, 108, 101, 100, 32, 116, 111, 32, 102, 101, 116, 99, 104,
      32, 104, 105, 115, 116, 111, 114, 121>>

\* "Upload request failed."
UploadRequestFailed ==
    <<85, 112, 108, 111, 97, 100, 32, 114, 101, 113, 117, 101, 115, 116,
      32, 102, 97, 105, 108, 101, 100, 46>>

\* "Uploading..."
Uploading ==
    <<85, 112, 108, 111, 97, 100, 105, 110, 103, 46, 46, 46>>

\* "Upload failed."
UploadFailed ==
    <<85, 112, 108, 111, 97, 100, 32, 102, 97, 105, 108, 101, 100, 46>>

\* "Upload successful: "
UploadSuccessful ==
    <<85, 112, 108, 111, 97, 100, 32, 115, 117, 99, 99, 101, 115, 115, 102,
      117, 108, 58, 32>>

\* ", "
CommaSpace ==
    <<44, 32>>

\* "Cannot read properties of undefined (reading 'join')"
CannotReadJoin ==
    <<67, 97, 110, 110, 111, 116, 32, 114, 101, 97, 100, 32, 112, 114, 111,
      112, 101, 114, 116, 105, 101, 115, 32, 111, 102, 32, 117, 110, 100,
      101, 102, 105, 110, 101, 100, 32, 40, 114, 101, 97, 100, 105, 110,
      103, 32, 39, 106, 111, 105, 110, 39, 41>>

\* "Sorry, I ran into an error."
SorryError ==
    <<83, 111, 114, 114, 121, 44, 32, 73, 32, 114, 97, 110, 32, 105, 110,
      116, 111, 32, 97, 110, 32, 101, 114, 114, 111, 114, 46>>

\* "Failed to get response from server."
FailedToGetResponse ==
    <<70, 97, 105, 108, 101, 100, 32, 116, 111, 32, 103, 101, 116, 32, 114,
      101, 115, 112, 111, 110, 115, 101, 32, 102, 114, 111, 109, 32, 115,
      101, 114, 118, 101, 114, 46>>

\* "Login failed"
LoginFailed ==
    <<76, 111, 103, 105, 110, 32, 102, 97, 105, 108, 101, 100>>

\* "Registration failed"
RegistrationFailed ==
    <<82, 101, 103, 105, 115, 116, 114, 97, 116, 105, 111, 110, 32, 102,
      97, 105, 108, 101, 100>>

\* "Invalid credentials"
InvalidCredentials ==
    <<73, 110, 118, 97, 108, 105, 100, 32, 99, 114, 101, 100, 101, 110,
      116, 105, 97, 108, 115>>

\* "User already exists"
UserAlreadyExists ==
    <<85, 115, 101, 114, 32, 97, 108, 114, 101, 97, 100, 121, 32, 101, 120,
      105, 115, 116, 115>>

\* "Server error"
ServerError ==
    <<83, 101, 114, 118, 101, 114, 32, 101, 114, 114, 111, 114>>

\* "Token is not valid"
TokenIsNotValid ==
    <<84, 111, 107, 101, 110, 32, 105, 115, 32, 110, 111, 116, 32, 118, 97,
      108, 105, 100>>

\* "401 Unauthorized"
Unauthorized401 ==
    <<52, 48, 49, 32, 85, 110, 97, 117, 116, 104, 111, 114, 105, 122, 101,
      100>>

\* "a.pdf"
APdf ==
    <<97, 46, 112, 100, 102>>

\* "hi"
Hi ==
    <<104, 105>>

\* "a"
A ==
    <<97>>

\* " \t"
Blank ==
    <<32, 9>>

----------------------------------------------------------------------------
(* The client: what the user enters and what the backend answers *)

\* What the user types into the text field of the chat page.
Inputs == {Blank, Hi}

\* The text of one chunk of a streamed reply.
Chunks == {A}

\* The statuses the backend answers a handler's request with.
Statuses(kind) ==
    IF kind \in {"login", "register"} THEN {200, 400, 500} ELSE {200, 401, 500}

\* Response.ok
Ok(status) == status >= 200 /\ status <= 299

\* The msg field of the JSON body of an answer that is not ok; <<>> is a body
\* without it.  The 401 is written by middleware/auth.js, whose text is
\* either of the two; the 500 of /api/upload has an error field and no msg.
Msgs(kind, status) ==
    IF status = 401 THEN {TokenIsNotValid, Unauthorized401}
    ELSE IF status = 400
         THEN {IF kind = "login" THEN InvalidCredentials ELSE UserAlreadyExists}
    ELSE IF kind \in {"login", "register"} THEN {ServerError}
    ELSE {<<>>}

\* The tokens /api/login and /api/register answer with: a@x's or b@x's.
AnswerTokens == {Sign(Alice.id), Sign(Bob.id)}

\* The JSON bodies of the answers to login, register and upload.  hasFiles
\* tells whether the body has a processed_files field.
Data(msg, tok, hasFiles, files) ==
    [msg |-> msg, token |-> tok, hasFiles |-> hasFiles, processed_files |-> files]

DataOf(kind, status) ==
    IF ~Ok(status)
    THEN {Data(m, NoToken, FALSE, <<>>) : m \in Msgs(kind, status)}
    ELSE IF kind = "upload"
         THEN {Data(<<>>, NoToken, TRUE, <<APdf>>), Data(<<>>, NoToken, FALSE, <<>>)}
    ELSE {Data(<<>>, tok, FALSE, <<>>) : tok \in AnswerTokens}

\* What GET /api/history returns: nothing, or one earlier exchange.
HistoryBodies ==
    {<<>>,
     <<[role |-> "user", content |-> Hi, x |-> 0, by |-> 0],
       [role |-> "assistant", content |-> A, x |-> 0, by |-> 0]>>}

----------------------------------------------------------------------------
(* AuthContext, the router and the handlers' bookkeeping *)

\* The token state and the localStorage entry after setAuthToken(newToken);
\* NoToken stands for null and for the missing entry.
SetAuthToken(newToken) ==
    IF newToken # NoToken
    THEN [token |-> newToken, storage |-> newToken]
    ELSE [token |-> NoToken, storage |-> NoToken]

\* The page the router shows for a path.
Route(path) ==
    IF path = "/" THEN "chat" ELSE IF path = "/login" THEN "login" ELSE "register"

TaskIds == 1..Len(tasks)

\* The handlers the user invoked: every one but the effect's fetchHistory.
UserTasks == {t \in TaskIds : tasks[t].kind # "history"}

\* The component that invoked handler t is still mounted: its state setters
\* take effect.  An unmounted component's setters do nothing.
Live(t) == tasks[t].live

Unmount(ts) == [t \in 1..Len(ts) |-> [ts[t] EXCEPT !.live = FALSE]]

\* React still holds the tree of the application.  An error thrown while
\* rendering removes the whole of it, AuthProvider and router included:
\* from then on setToken and navigate change nothing that is shown, while
\* localStorage is written as before.
Rooted == page # "crashed"

\* What a handler leaves behind when it ends without touching the token, and
\* when it ends with setAuthToken(newToken); navigate(path).
Here == [token |-> token, storage |-> storage, page |-> page]

AuthAfter(newToken, path) ==
    [token |-> IF Rooted THEN SetAuthToken(newToken).token ELSE token,
     storage |-> SetAuthToken(newToken).storage,
     page |-> IF Rooted THEN Route(path) ELSE page]

LoggedOut == AuthAfter(NoToken, "/login")

\* A handler that ran to its end: what its request was answered, the error
\* it caught, and the token state, the localStorage entry and the page at
\* its end.
Finish(task, status, err, after) ==
    [task EXCEPT !.pc = "done", !.status = status, !.error = err,
                 !.after = after]

\* navigate(path) in a step that leaves the handlers ts and the token state
\* tok.  Another page unmounts the one shown and mounts the new one with its
\* useState values; the chat page's effect calls fetchHistory when the page
\* is mounted and when the token has changed.
Navigate(path, ts, tok) ==
    IF ~Rooted \/ Route(path) = page
    THEN /\ UNCHANGED <<page, messages, objs, input, uploadStatus, error>>
         /\ tasks' = IF page = "chat" /\ tok # token
                     THEN Append(ts, NewTask("history"))
                     ELSE ts
    ELSE /\ page' = Route(path)
         /\ messages' = <<>>
         /\ objs' = <<>>
         /\ input' = <<>>
         /\ uploadStatus' = <<>>
         /\ error' = <<>>
         /\ tasks' = IF Route(path) = "chat"
                     THEN Append(Unmount(ts), NewTask("history"))
                     ELSE Unmount(ts)

\* setAuthToken(null); navigate('/login')
HandleLogout(ts) ==
    /\ token' = LoggedOut.token
    /\ storage' = LoggedOut.storage
    /\ Navigate("/login", ts, LoggedOut.token)

\* The references of n objects appended to the heap.
NewRefs(n) == [k \in 1..n |-> Len(objs) + k]

----------------------------------------------------------------------------
(* The chat page: fetchHistory, handleFileUpload, the Logout button *)

\* fetchHistory from the answer of fetch to await response.json(), or to
\* its end when the answer is not ok.
FetchHistoryAnswer(t, status) ==
    /\ tasks[t].kind = "history"
    /\ tasks[t].pc = "fetch"
    /\ IF ~Ok(status)
       THEN IF status = 401 \/ Includes(FailedToFetchHistory, Code401)
            THEN HandleLogout([tasks EXCEPT
                     ![t] = Finish(@, status, FailedToFetchHistory, LoggedOut)])
            ELSE /\ tasks' = [tasks EXCEPT
                        ![t] = Finish(@, status, FailedToFetchHistory, Here)]
                 /\ UNCHANGED <<token, storage, page, messages, objs, input,
                                uploadStatus, error>>
       ELSE /\ tasks' = [tasks EXCEPT
                   ![t] = [@ EXCEPT !.pc = "json", !.status = status]]
            /\ UNCHANGED <<token, storage, page, messages, objs, input,
                           uploadStatus, error>>
    /\ UNCHANGED serverVars

\* response.json() resolves: setMessages(historyMessages)
FetchHistoryBody(t, body) ==
    /\ tasks[t].kind = "history"
    /\ tasks[t].pc = "json"
    /\ IF Live(t)
       THEN /\ objs' = objs \o body
            /\ messages' = NewRefs(Len(body))
       ELSE UNCHANGED <<messages, objs>>
    /\ tasks' = [tasks EXCEPT ![t] = Finish(@, tasks[t].status, <<>>, Here)]
    /\ UNCHANGED <<token, storage, page, input, uploadStatus, error, serverVars>>

\* handleFileUpload up to its fetch; n is files.length.
HandleFileUpload(n) ==
    /\ page = "chat"
    /\ Cardinality(UserTasks) < MaxReqs
    /\ IF n = 0
       THEN UNCHANGED <<uploadStatus, tasks>>
       ELSE /\ uploadStatus' = Uploading
            /\ tasks' = Append(tasks, NewTask("upload"))
    /\ UNCHANGED <<token, storage, page, messages, objs, input, error,
                   serverVars>>

\* handleFileUpload from the answer of fetch to await response.json().
FileUploadAnswer(t, status) ==
    /\ tasks[t].kind = "upload"
    /\ tasks[t].pc = "fetch"
    /\ tasks' = [tasks EXCEPT ![t] = [@ EXCEPT !.pc = "json", !.status = status]]
    /\ UNCHANGED <<token, storage, page, messages, objs, input, uploadStatus,
                   error, serverVars>>

\* response.json() resolves with data.  An answer that is not ok throws
\* errorData.msg || 'Upload request failed.', a body without processed_files
\* throws the TypeError of data.processed_files.join; the catch logs out if
\* the message includes "401".
FileUploadBody(t, data) ==
    /\ tasks[t].kind = "upload"
    /\ tasks[t].pc = "json"
    /\ LET status == tasks[t].status
           err == IF ~Ok(status)
                  THEN IF data.msg # <<>> THEN data.msg ELSE UploadRequestFailed
                  ELSE CannotReadJoin
       IN  IF ~Ok(status) \/ ~data.hasFiles
           THEN IF Includes(err, Code401)
                THEN HandleLogout([tasks EXCEPT
                         ![t] = Finish(@, status, err, LoggedOut)])
                ELSE /\ uploadStatus' =
                            IF Live(t) THEN UploadFailed ELSE uploadStatus
                     /\ tasks' = [tasks EXCEPT
                            ![t] = Finish(@, status, err, Here)]
                     /\ UNCHANGED <<token, storage, page, messages, objs,
                                    input, error>>
           ELSE /\ uploadStatus' =
                       IF Live(t)
                       THEN UploadSuccessful \o Join(data.processed_files, CommaSpace)
                       ELSE uploadStatus
                /\ tasks' = [tasks EXCEPT ![t] = Finish(@, status, <<>>, Here)]
                /\ UNCHANGED <<token, storage, page, messages, objs, input,
                               error>>
    /\ UNCHANGED serverVars

\* The button Logout.
LogoutClick ==
    /\ page = "chat"
    /\ HandleLogout(tasks)
    /\ UNCHANGED serverVars

----------------------------------------------------------------------------
(* The chat page: the text field and handleSend *)

\* onChange of the text field: setInput(e.target.value)
SetInput(text) ==
    /\ page = "chat"
    /\ input' = text
    /\ UNCHANGED <<token, storage, page, messages, objs, uploadStatus, error,
                   tasks, serverVars>>

\* A message object of the page.  x is the invocation of handleSend that
\* created it and by the invocation whose code wrote its content last;
\* both are 0 in the objects of a history body.
MessageObj(role, content, t) ==
    [role |-> role, content |-> content, x |-> t, by |-> t]

\* The reply of some handleSend of the page is being read.
Streaming ==
    \E u \in TaskIds : tasks[u].kind = "send" /\ Live(u) /\ tasks[u].pc = "read"

\* Every fetchHistory of the page has set the messages.
Loaded ==
    \A u \in TaskIds : tasks[u].kind = "history" /\ Live(u) => tasks[u].pc = "done"

\* handleSend up to its fetch.  The closure holds the messages and the
\* input of the render the handler belongs to.
HandleSend ==
    /\ page = "chat"
    /\ Cardinality(UserTasks) < MaxReqs
    /\ IF Trim(input) = <<>>
       THEN UNCHANGED <<messages, objs, input, tasks>>
       ELSE LET t == Len(tasks) + 1
                userMessage == MessageObj("user", input, t)
                newMessages == Append(messages, Len(objs) + 1)
            IN  /\ objs' = Append(objs, userMessage)
                /\ messages' = newMessages
                /\ input' = <<>>
                /\ tasks' = Append(tasks,
                       [NewTask("send") EXCEPT
                           !.currentInput = input,
                           !.newMessages = newMessages,
                           !.user = Len(objs) + 1,
                           !.overlap = Streaming,
                           !.loaded = Loaded])
    /\ UNCHANGED <<token, storage, page, uploadStatus, error, serverVars>>

\* The catch of handleSend: setMessages([...newMessages, errorMessage])
CatchSend(t) ==
    IF Live(t)
    THEN /\ objs' = Append(objs, MessageObj("assistant", SorryError, t))
         /\ messages' = Append(tasks[t].newMessages, Len(objs) + 1)
    ELSE UNCHANGED <<messages, objs>>

\* handleSend from the answer of fetch to the first reader.read(), or to its
\* end when the answer is not ok.
SendAnswer(t, status) ==
    /\ tasks[t].kind = "send"
    /\ tasks[t].pc = "fetch"
    /\ IF ~Ok(status)
       THEN IF status = 401
            THEN HandleLogout([tasks EXCEPT
                     ![t] = Finish(@, status, FailedToGetResponse, LoggedOut)])
            ELSE /\ CatchSend(t)
                 /\ tasks' = [tasks EXCEPT
                        ![t] = Finish(@, status, FailedToGetResponse, Here)]
                 /\ UNCHANGED <<token, storage, page, input, uploadStatus,
                                error>>
       ELSE /\ IF Live(t)
               THEN /\ objs' = Append(objs, MessageObj("assistant", <<>>, t))
                    /\ messages' = Append(tasks[t].newMessages, Len(objs) + 1)
               ELSE UNCHANGED <<messages, objs>>
            /\ tasks' = [tasks EXCEPT
                   ![t] = [@ EXCEPT !.pc = "read", !.status = status]]
            /\ UNCHANGED <<token, storage, page, input, uploadStatus, error>>
    /\ UNCHANGED serverVars

\* reader.read() resolves with a chunk, which the TextDecoder turns into
\* text: assistantResponse grows and the updater writes it into the last
\* element of the messages state.  The updater copies the array and not the
\* object, so the write is to the object itself.  On an empty array the
\* updater throws while React renders, which unmounts the page.
SendRead(t, chunk) ==
    /\ tasks[t].kind = "send"
    /\ tasks[t].pc = "read"
    /\ tasks[t].reads < MaxChunks
    /\ LET assistantResponse == tasks[t].assistantResponse \o chunk
           ts == [tasks EXCEPT
                     ![t] = [@ EXCEPT !.assistantResponse = assistantResponse,
                                      !.reads = @ + 1]]
       IN  IF Live(t) /\ messages = <<>>
           THEN /\ page' = "crashed"
                /\ messages' = <<>>
                /\ objs' = <<>>
                /\ input' = <<>>
                /\ uploadStatus' = <<>>
                /\ tasks' = Unmount(ts)
           ELSE /\ objs' = IF Live(t)
                           THEN [objs EXCEPT
                                    ![messages[Len(messages)]] =
                                        [@ EXCEPT !.content = assistantResponse,
                                                  !.by = t]]
                           ELSE objs
                /\ tasks' = ts
                /\ UNCHANGED <<page, messages, input, uploadStatus>>
    /\ UNCHANGED <<token, storage, error, serverVars>>

\* reader.read() resolves with done: the loop breaks.
SendDone(t) ==
    /\ tasks[t].kind = "send"
    /\ tasks[t].pc = "read"
    /\ tasks' = [tasks EXCEPT
           ![t] = Finish(@, tasks[t].status, <<>>, Here)]
    /\ UNCHANGED <<token, storage, page, messages, objs, input, uploadStatus,
                   error, serverVars>>

\* reader.read() rejects, the connection having been closed mid-stream.
SendReadError(t) ==
    /\ tasks[t].kind = "send"
    /\ tasks[t].pc = "read"
    /\ CatchSend(t)
    /\ tasks' = [tasks EXCEPT
           ![t] = Finish(@, tasks[t].status, <<>>, Here)]
    /\ UNCHANGED <<token, storage, page, input, uploadStatus, error, serverVars>>

----------------------------------------------------------------------------
(* The login and register pages *)

\* The link from one form to the other.
Link(path) ==
    /\ page \in {"login", "register"}
    /\ Route(path) \in {"login", "register"} \ {page}
    /\ Navigate(path, tasks, token)
    /\ UNCHANGED <<token, storage, serverVars>>

\* handleSubmit of the form shown, up to its fetch: setError('').  The email
\* and the password go into the request and nowhere else.
HandleSubmit ==
    /\ page \in {"login", "register"}
    /\ Cardinality(UserTasks) < MaxReqs
    /\ error' = <<>>
    /\ tasks' = Append(tasks, NewTask(page))
    /\ UNCHANGED <<token, storage, page, messages, objs, input, uploadStatus,
                   serverVars>>

\* handleSubmit from the answer of fetch to await response.json().
SubmitAnswer(t, status) ==
    /\ tasks[t].kind \in {"login", "register"}
    /\ tasks[t].pc = "fetch"
    /\ tasks' = [tasks EXCEPT ![t] = [@ EXCEPT !.pc = "json", !.status = status]]
    /\ UNCHANGED <<token, storage, page, messages, objs, input, uploadStatus,
                   error, serverVars>>

\* response.json() resolves with data: an answer that is not ok throws
\* data.msg || 'Login failed' ('Registration failed') and the catch shows it;
\* otherwise setAuthToken(data.token); navigate('/').
SubmitBody(t, data) ==
    /\ tasks[t].kind \in {"login", "register"}
    /\ tasks[t].pc = "json"
    /\ LET status == tasks[t].status
           err == IF data.msg # <<>> THEN data.msg
                  ELSE IF tasks[t].kind = "login" THEN LoginFailed
                  ELSE RegistrationFailed
           auth == AuthAfter(data.token, "/")
       IN  IF ~Ok(status)
           THEN /\ error' = IF Live(t) THEN err ELSE error
                /\ tasks' = [tasks EXCEPT ![t] = Finish(@, status, err, Here)]
                /\ UNCHANGED <<token, storage, page, messages, objs, input,
                               uploadStatus>>
           ELSE /\ token' = auth.token
                /\ storage' = auth.storage
                /\ Navigate("/",
                            [tasks EXCEPT ![t] = Finish(@, status, <<>>, auth)],
                            auth.token)
    /\ UNCHANGED serverVars

----------------------------------------------------------------------------

ClientNext ==
    \/ \E t \in TaskIds : \E status \in Statuses("history") :
           FetchHistoryAnswer(t, status)
    \/ \E t \in TaskIds, body \in HistoryBodies : FetchHistoryBody(t, body)
    \/ \E n \in FileCounts : HandleFileUpload(n)
    \/ \E t \in TaskIds : \E status \in Statuses("upload") :
           FileUploadAnswer(t, status)
    \/ \E t \in TaskIds : \E data \in DataOf("upload", tasks[t].status) :
           FileUploadBody(t, data)
    \/ LogoutClick
    \/ \E text \in Inputs : SetInput(text)
    \/ HandleSend
    \/ \E t \in TaskIds : \E status \in Statuses("send") : SendAnswer(t, status)
    \/ \E t \in TaskIds, chunk \in Chunks : SendRead(t, chunk)
    \/ \E t \in TaskIds : SendDone(t)
    \/ \E t \in TaskIds : SendReadError(t)
    \/ \E path \in {"/login", "/register"} : Link(path)
    \/ HandleSubmit
    \/ \E t \in TaskIds : \E status \in Statuses(tasks[t].kind) :
           SubmitAnswer(t, status)
    \/ \E t \in TaskIds : \E data \in DataOf(tasks[t].kind, tasks[t].status) :
           SubmitBody(t, data)

SpecClient == Init /\ [][ClientNext]_vars

----------------------------------------------------------------------------
(* Vocabulary of the properties *)

\* The user a request is authenticated as, 0 if auth refused it.
AuthUser(i) == IF Verify(reqs[i].tok) THEN reqs[i].tok.id ELSE 0

Done(i) == reqs[i].pc = "done"

Is(i, kind) == reqs[i].kind = kind

\* The exchange of chat i ran to the end of the upstream stream and res.end().
Completed(i) == Is(i, "chat") /\ Done(i) /\ reqs[i].ups = "ended"

UserMessage(i) == Message("user", reqs[i].question, i)

AssistantMessage(i) == Message("assistant", reqs[i].fullAssistantResponse, i)

Positions(h, m) == {k \in 1..Len(h) : h[k] = m}

IsPrefix(s, t) == Len(s) <= Len(t) /\ SubSeq(t, 1, Len(s)) = s

\* The password a stored user registered with.
PasswordOf(u) == u.password.digest[2]

RecordsOf(uid) == {k \in 1..Len(histories) : histories[k].userId = uid}

----------------------------------------------------------------------------
\* C1 as claimed: after a completed exchange the user's history holds the
\* exchange's user message immediately followed by its assistant message,
\* also when the same user has two chats in flight.
C1_Adjacent ==
    \A i \in Ids : Completed(i) =>
        LET h == HistMessages(histories, reqs[i].userId)
        IN  \E k \in 1..(Len(h) - 1) :
                h[k] = UserMessage(i) /\ h[k + 1] = AssistantMessage(i)

\* C1 as amended: after a completed exchange the user's history holds the
\* exchange's user message once and, later, its assistant message once; the
\* assistant message immediately follows the user message when no other chat
\* of the same user was in flight during the exchange.
C1_Ordered ==
    \A i \in Ids : Completed(i) =>
        LET h == HistMessages(histories, reqs[i].userId)
            us == Positions(h, UserMessage(i))
            as == Positions(h, AssistantMessage(i))
        IN  /\ Cardinality(us) = 1 /\ Cardinality(as) = 1
            /\ \A k \in us, l \in as :
                    k < l /\ (~reqs[i].conc => l = k + 1)

\* Two exchanges of one user ran one after the other and both completed.
C1_Witness ==
    \E i, j \in Ids :
        /\ i < j /\ Completed(i) /\ Completed(j)
        /\ reqs[i].userId = reqs[j].userId
        /\ ~reqs[i].conc /\ ~reqs[j].conc
        /\ Len(HistMessages(histories, reqs[i].userId)) = 4

----------------------------------------------------------------------------
\* C2: a request to a protected route without a token, or with an expired or
\* tampered one, is answered 401 and has no effect: it performs no
\* ChatHistory operation, leaves no message and never calls the Python service.
C2_Unauthorized ==
    \A i \in Ids :
        (reqs[i].kind \in {"history", "chat", "upload"}
            /\ (reqs[i].tok.sig # "ok" \/ reqs[i].tok.age >= TokenTTL)) =>
        /\ Done(i) /\ reqs[i].status = 401
        /\ reqs[i].dbops = 0 /\ reqs[i].calls = 0
        /\ \A k \in 1..Len(histories) :
               \A l \in 1..Len(histories[k].messages) : histories[k].messages[l].x # i

\* An expired token was refused on the chat route and a tampered one on an
\* upload that carried a file.
C2_Witness ==
    \E i, j \in Ids :
        /\ Is(i, "chat") /\ reqs[i].tok.sig = "ok" /\ reqs[i].tok.age = TokenTTL
        /\ reqs[i].status = 401
        /\ Is(j, "upload") /\ reqs[j].tok.sig = "bad" /\ reqs[j].nfiles > 0
        /\ reqs[j].status = 401

----------------------------------------------------------------------------
\* C3 as claimed: of two registrations of the same, not yet registered email,
\* one obtains a token and the other is answered 400 "User already exists"
\* without a token, and one User is created, in every interleaving.
C3_SecondConflict ==
    \A i, j \in Ids :
        (i < j /\ Is(i, "register") /\ Is(j, "register")
            /\ reqs[i].email = reqs[j].email /\ ~reqs[i].regd
            /\ Done(i) /\ Done(j)) =>
        /\ \E w \in {i, j} : \E l \in {i, j} \ {w} :
               /\ reqs[w].status = 200 /\ reqs[w].token # NoToken
               /\ reqs[l].status = 400 /\ reqs[l].msg = "User already exists"
               /\ reqs[l].token = NoToken
        /\ Cardinality({k \in 1..Len(users) : users[k].email = reqs[i].email}) = 1

----------------------------------------------------------------------------
\* C4: a login with the email and password of a registration that had
\* succeeded when the login arrived succeeds with a token for the same user
\* identifier as the registration's token; a login whose email is absent or
\* whose password is not the registered one is answered 400 without a token.
C4_Login ==
    \A l \in Ids : (Is(l, "login") /\ Done(l)) =>
        LET u == FindUser(users, reqs[l].email)
        IN  /\ (reqs[l].regd /\ reqs[l].pw = PasswordOf(u)) =>
                  /\ reqs[l].status = 200
                  /\ reqs[l].token = Sign(u.id)
                  /\ \A r \in Ids :
                         (Is(r, "register") /\ reqs[r].status = 200
                             /\ reqs[r].email = reqs[l].email) =>
                         reqs[l].token.id = reqs[r].token.id
            /\ (u = NoUser \/ reqs[l].pw # PasswordOf(u)) =>
                  /\ reqs[l].status = 400 /\ reqs[l].token = NoToken
                  /\ reqs[l].msg = "Invalid credentials"

\* b@x registered and then logged in with the same password.
C4_Witness ==
    \E r, l \in Ids :
        /\ Is(r, "register") /\ reqs[r].status = 200
        /\ Is(l, "login") /\ reqs[l].status = 200 /\ reqs[l].regd
        /\ reqs[l].email = reqs[r].email /\ reqs[l].pw = reqs[r].pw
        /\ reqs[l].token.id = reqs[r].token.id

----------------------------------------------------------------------------
\* C5 as claimed: an authenticated history fetch that finds no record for its
\* user is answered 200 with the empty sequence, never an error, and a record
\* of the user exists afterwards, also when first fetches overlap.
C5_FirstFetchOk ==
    \A i \in Ids :
        (Is(i, "history") /\ Done(i) /\ reqs[i].miss) =>
        /\ reqs[i].status = 200 /\ reqs[i].msgs = <<>>
        /\ RecordsOf(reqs[i].userId) # {}

----------------------------------------------------------------------------
\* C6: an upload the auth middleware let through that carries no file is
\* answered 400 and the Python service is never called for it; one with
\* files calls /upload exactly once and is answered either 200 with the body
\* the service answered with, or an error.
C6_Upload ==
    \A i \in Ids : (Is(i, "upload") /\ AuthUser(i) # 0) =>
        /\ reqs[i].calls <= 1
        /\ reqs[i].nfiles = 0 =>
               /\ reqs[i].calls = 0
               /\ Done(i) => reqs[i].status = 400
        /\ (reqs[i].nfiles > 0 /\ reqs[i].pc # "multer") => reqs[i].calls = 1
        /\ (reqs[i].nfiles > 0 /\ Done(i)) =>
               \/ /\ reqs[i].status = 200 /\ reqs[i].ups = "ended"
                  /\ reqs[i].ack = reqs[i].rcvd[1]
               \/ reqs[i].status = 500 /\ reqs[i].ups = "refused"

\* One authenticated upload without files was refused, one with a file was
\* answered with the acknowledgment of the service.
C6_Witness ==
    \E i, j \in Ids :
        /\ AuthUser(i) # 0 /\ AuthUser(j) # 0
        /\ Is(i, "upload") /\ reqs[i].nfiles = 0 /\ reqs[i].status = 400
        /\ Is(j, "upload") /\ reqs[j].nfiles > 0 /\ reqs[j].status = 200
        /\ reqs[j].ack = <<"a.pdf">>

----------------------------------------------------------------------------
\* C7 as claimed: every User has exactly one ChatHistory record, in every
\* reachable state.
C7_ExactlyOne ==
    \A k \in 1..Len(users) : Cardinality(RecordsOf(users[k].id)) = 1

\* C7 as amended: there are never two ChatHistory records with the same user
\* identifier, and every record is that of a User.
C7_AtMostOne ==
    /\ \A k, l \in 1..Len(histories) :
           k # l => histories[k].userId # histories[l].userId
    /\ \A k \in 1..Len(histories) :
           \E n \in 1..Len(users) : users[n].id = histories[k].userId

\* Two requests of one user both tried to create the user's record.
C7_Witness ==
    \E i, j \in Ids :
        /\ i # j /\ reqs[i].userId = reqs[j].userId
        /\ Is(i, "history") /\ Done(i) /\ reqs[i].miss
        /\ \/ Is(j, "history") /\ Done(j) /\ reqs[j].miss
           \/ Is(j, "chat") /\ reqs[j].dbops > 0
        /\ Cardinality(RecordsOf(reqs[i].userId)) = 1

----------------------------------------------------------------------------
\* C8: in every step each user's stored message sequence is extended at its
\* end or left as it is, and a step that extends it is a step of a chat
\* handler.
C8_AppendOnly ==
    [][\A uid \in 1..nextId :
         /\ IsPrefix(HistMessages(histories, uid), HistMessages(histories', uid))
         /\ HistMessages(histories', uid) # HistMessages(histories, uid) =>
                \E i \in Ids :
                    /\ Is(i, "chat") /\ reqs[i].userId = uid
                    /\ Len(reqs') = Len(reqs)
                    /\ reqs'[i].pc # reqs[i].pc
                    /\ \A j \in Ids \ {i} : reqs'[j] = reqs[j]]_vars

\* A history fetch returned the two messages of a completed exchange.
C8_Witness ==
    \E i, j \in Ids :
        /\ Completed(i)
        /\ Is(j, "history") /\ reqs[j].status = 200 /\ reqs[j].userId = reqs[i].userId
        /\ reqs[j].msgs = <<UserMessage(i), AssistantMessage(i)>>

----------------------------------------------------------------------------
\* C9 as claimed: a chat whose call of the Python service failed, before the
\* stream or during it, ends with an error response.
C9_AlwaysAnswered ==
    \A i \in Ids :
        (Is(i, "chat") /\ reqs[i].ups \in {"refused", "broken"} /\ ~InFlight(i)) =>
        Done(i) /\ reqs[i].status = 500

\* C9 as amended: a chat whose axios.post was rejected is answered 500
\* "Error processing chat" and ends; a chat whose stream broke after it had
\* started gets no error response and its response is never ended.
C9_RefusedAnswered ==
    \A i \in Ids : Is(i, "chat") =>
        /\ reqs[i].ups = "refused" =>
               /\ Done(i) /\ reqs[i].status = 500
               /\ reqs[i].msg = "Error processing chat" /\ reqs[i].written = <<>>
        /\ reqs[i].ups = "broken" =>
               reqs[i].pc = "orphan" /\ reqs[i].status # 500

\* One chat was refused by the service, the stream of another broke.
C9_Witness ==
    \E i, j \in Ids :
        /\ Is(i, "chat") /\ reqs[i].ups = "refused" /\ Done(i)
        /\ Is(j, "chat") /\ reqs[j].ups = "broken"

----------------------------------------------------------------------------
\* C10 as claimed: in a completed exchange the chunks written to the caller
\* are exactly the chunks received, in order, and the assistant message holds
\* the text of their concatenation.
C10_RelayExact ==
    \A i \in Ids : Completed(i) =>
        /\ reqs[i].written = reqs[i].rcvd
        /\ Positions(HistMessages(histories, reqs[i].userId),
                     Message("assistant", Utf8Decode(Concat(reqs[i].rcvd)), i)) # {}

----------------------------------------------------------------------------
\* C11 as claimed: when a handler of the chat page has finished a call that
\* was answered 401, be it the history fetch, a chat send or a file upload,
\* it has left the token state and the localStorage entry cleared and the
\* browser at the login page.
C11_Discards ==
    \A t \in TaskIds :
        (/\ tasks[t].kind \in {"history", "send", "upload"}
         /\ tasks[t].pc = "done"
         /\ tasks[t].status = 401) =>
            tasks[t].after = [token |-> NoToken, storage |-> NoToken,
                              page |-> "login"]

----------------------------------------------------------------------------
\* The records of user uid, in the order of the collection.
RecordsSeq(hs, uid) == SelectSeq(hs, LAMBDA r : r.userId = uid)

\* Message m was written by a chat request authenticated as uid.
OwnMessage(m, uid) ==
    /\ m.x \in Ids
    /\ Is(m.x, "chat")
    /\ AuthUser(m.x) = uid
    /\ m \in {UserMessage(m.x), AssistantMessage(m.x)}

\* Every stored record holds only messages of its user's own chat requests,
\* and every history fetch returned only messages of the user it was
\* authenticated as.
OwnMessagesOnly ==
    /\ \A k \in 1..Len(histories) :
           \A n \in 1..Len(histories[k].messages) :
               OwnMessage(histories[k].messages[n], histories[k].userId)
    /\ \A j \in Ids :
           Is(j, "history") /\ reqs[j].status = 200 =>
               \A n \in 1..Len(reqs[j].msgs) :
                   OwnMessage(reqs[j].msgs[n], AuthUser(j))

\* C12: with two users, in every interleaving of their history and chat
\* requests, a step that creates or changes a ChatHistory record is a step
\* of a request authenticated as the user of that record and leaves the
\* records of every other user as they were; every record holds only
\* messages of its own user's chat requests, and a history fetch returns only
\* messages of the user it is authenticated as.
C12_Isolation ==
    [][/\ OwnMessagesOnly'
       /\ histories' # histories =>
              \E i \in Ids :
                  /\ AuthUser(i) # 0
                  /\ Len(reqs') = Len(reqs)
                  /\ reqs'[i].pc # reqs[i].pc
                  /\ \A uid \in (1..nextId) \ {AuthUser(i)} :
                         RecordsSeq(histories', uid) = RecordsSeq(histories, uid)]_vars

\* A chat of one user has stored its messages while a history fetch of the
\* other user returned that user's own, empty, sequence.
C12_Witness ==
    \E i, j \in Ids :
        /\ Is(i, "chat") /\ Is(j, "history")
        /\ AuthUser(i) # 0 /\ AuthUser(j) # 0 /\ AuthUser(i) # AuthUser(j)
        /\ Positions(HistMessages(histories, AuthUser(i)), UserMessage(i)) # {}
        /\ reqs[j].status = 200 /\ reqs[j].msgs = <<>>
        /\ HistIndex(histories, AuthUser(j)) # 0

----------------------------------------------------------------------------
\* The invocations of handleSend of the chat page that is mounted.
Sends == {t \in TaskIds : tasks[t].kind = "send" /\ Live(t)}

\* The invocations of fetchHistory of the chat page that is mounted.
Fetches == {t \in TaskIds : tasks[t].kind = "history" /\ Live(t)}

\* C13 as claimed: on the chat page, when the history has been loaded and a
\* second message is sent while the reply to the first is still streaming,
\* the transcript keeps the user message of every send with the text that
\* was sent, no user message receives reply text, and every assistant
\* message holds only what its own exchange wrote.
C13_OwnExchange ==
    (/\ page = "chat"
     /\ \E t \in Sends : tasks[t].overlap
     /\ \A t \in Sends : tasks[t].loaded /\ \A h \in Fetches : h < t) =>
        /\ \A t \in Sends :
               /\ \E n \in 1..Len(messages) : messages[n] = tasks[t].user
               /\ objs[tasks[t].user].content = tasks[t].currentInput
        /\ \A o \in 1..Len(objs) : objs[o].by = objs[o].x

====
